---- MODULE Spec2Model ----
(***************************************************************************)
(* A model of src/PDF.py: the extraction of images from a source document  *)
(* (extract_content_from_pdf), the assembly of pipe tables                  *)
(* (parse_markdown_table, create_paragraph_table), and the line machine of  *)
(* save_to_pdf that turns generated markup into the list of layout units    *)
(* ("story"), and the batch loop of main that runs them for every source    *)
(* document; and of src/app.py: the conversation history of the chat loop.  *)
(*                                                                          *)
(* Text is modelled as a sequence of one-character strings, so that strip,  *)
(* split, startswith and the image-tag pattern are computed character by    *)
(* character as Python computes them.                                       *)
(***************************************************************************)
EXTENDS Integers, Sequences, FiniteSets, TLC

VARIABLES
    \* create_paragraph_table, run on its own
    raw_data_lines,   \* the buffer handed to create_paragraph_table
    table_out,        \* what it returned ("pending" before the call)
    \* the image sizing of save_to_pdf, run on its own
    im,               \* [w, h]: imageWidth, imageHeight of the loaded image
    draw,             \* the computed <<drawWidth, drawHeight>>, "pending" before
    \* save_to_pdf
    md_lines,         \* markdown_text.split('\n')
    idx,              \* number of lines of md_lines already consumed by the loop
    story,            \* the list of layout units
    table_buffer,
    in_table,
    pc,               \* "loop" | "final" | "build" | "returned" | "raised" | "idle"
    result,           \* the value save_to_pdf returned (TRUE/FALSE), "none" before
    \* extract_content_from_pdf
    doc,              \* the pages of the source document: each a sequence of images
    page_index,       \* index of the page the outer loop is at (1-based)
    img_index,        \* images of that page already visited by the inner loop
    img_count,
    image_data,       \* label number -> [img, ext]  (label "図<n>")
    temp_img,         \* scratch directory: <<number, ext>> -> image written there
    scanned,          \* history: the images the inner loop visited, in order
    xpc,              \* "page" | "image" | "returned" | "idle"
    \* main of PDF.py
    input_files,      \* list(INPUT_DIR.glob("*.pdf")), taken once
    file_index,       \* index of pdf_file in input_files (1-based)
    input_dir,        \* the source files that are in INPUT_DIR
    processed_dir,    \* the source files that are in PROCESSED_DIR
    temp_dir,         \* TEMP_IMG_DIR: files [name, img], img the document written from
    img_data,         \* the names of temp_dir files the current document's map refers to
    mpc,              \* "next" | "extracting" | "summarize" | "layout" | "build" | "done" | "idle"
    outcome,          \* history: how the pass over each source file ended
    reads,            \* history: <<document, written from>> of every image file layout opened
    \* main of app.py
    history,          \* the list of {"role", "content"} entries
    history_toon,     \* what format_history_toon made of the history for the last prompt
    turns,            \* history: the input, the outcome and the reply of every turn
    cpc               \* "input" | "exited" | "aborted" | "idle"

tvars == <<raw_data_lines, table_out>>
ivars == <<im, draw>>
lvars == <<md_lines, idx, story, table_buffer, in_table, pc, result>>
xvars == <<doc, page_index, img_index, img_count, image_data, temp_img, scanned, xpc>>
mvars == <<input_files, file_index, input_dir, processed_dir, temp_dir, img_data, mpc,
           outcome, reads>>
cvars == <<history, history_toon, turns, cpc>>
vars == <<tvars, ivars, lvars, xvars, mvars, cvars>>

-----------------------------------------------------------------------------
(* Python string primitives over sequences of characters *)

RECURSIVE LStripWhile(_, _)
LStripWhile(s, cs) ==
    IF s # <<>> /\ Head(s) \in cs THEN LStripWhile(Tail(s), cs) ELSE s

RECURSIVE RStripWhile(_, _)
RStripWhile(s, cs) ==
    IF s # <<>> /\ s[Len(s)] \in cs THEN RStripWhile(SubSeq(s, 1, Len(s) - 1), cs) ELSE s

\* str.strip(chars): every leading and every trailing character in cs goes
StripChars(s, cs) == RStripWhile(LStripWhile(s, cs), cs)

\* str.strip()
Strip(s) == StripChars(s, {" "})

\* str.startswith(p)
StartsWith(s, p) == Len(s) >= Len(p) /\ SubSeq(s, 1, Len(p)) = p

\* str.find(p): the least 1-based index where p occurs in s, 0 when it does not
Find(s, p) ==
    LET hits == {i \in 1..(Len(s) - Len(p) + 1) : SubSeq(s, i, i + Len(p) - 1) = p}
    IN  IF hits = {} THEN 0 ELSE CHOOSE i \in hits : \A j \in hits : i <= j

\* str.split(c) for a one-character separator: always at least one piece
RECURSIVE Split(_, _)
Split(s, c) ==
    LET i == Find(s, <<c>>)
    IN  IF i = 0 THEN <<s>>
        ELSE <<SubSeq(s, 1, i - 1)>> \o Split(SubSeq(s, i + 1, Len(s)), c)

\* "".join(row)
RECURSIVE Join(_)
Join(row) == IF row = <<>> THEN <<>> ELSE Head(row) \o Join(Tail(row))

\* str.replace(p, r): every non-overlapping occurrence, left to right
RECURSIVE Replace(_, _, _)
Replace(s, p, r) ==
    LET i == Find(s, p)
    IN  IF i = 0 THEN s
        ELSE SubSeq(s, 1, i - 1) \o r \o Replace(SubSeq(s, i + Len(p), Len(s)), p, r)

CharsOf(s) == {s[i] : i \in 1..Len(s)}

Max(S) == CHOOSE m \in S : \A n \in S : n <= m

-----------------------------------------------------------------------------
(* Tables: parse_markdown_table, format_inline_bold, create_paragraph_table *)

\* line 229: [cell.strip() for cell in line.strip('|').split('|')]
ParseRow(line) ==
    LET cells == Split(StripChars(line, {"|"}), "|")
    IN  [i \in 1..Len(cells) |-> Strip(cells[i])]

\* lines 226-232; split never returns an empty list, so every line gives a row
parse_markdown_table(markdown_lines) ==
    [i \in 1..Len(markdown_lines) |-> ParseRow(markdown_lines[i])]

Lower(c) == IF c = "B" THEN "b" ELSE IF c = "R" THEN "r" ELSE c

\* the length of a match of <br\s*/?> (ignoring case) at the head of s, 0 if none
BrMatchLen(s) ==
    IF Len(s) >= 4 /\ s[1] = "<" /\ Lower(s[2]) = "b" /\ Lower(s[3]) = "r"
    THEN LET rest == SubSeq(s, 4, Len(s))
             sp   == Len(rest) - Len(LStripWhile(rest, {" "}))
             r2   == SubSeq(rest, sp + 1, Len(rest))
         IN  IF r2 # <<>> /\ r2[1] = ">" THEN 3 + sp + 1
             ELSE IF Len(r2) >= 2 /\ r2[1] = "/" /\ r2[2] = ">" THEN 3 + sp + 2
             ELSE 0
    ELSE 0

\* line 237: re.sub(r'<br\s*/?>', '<br/>', text, flags=re.IGNORECASE)
RECURSIVE NormalizeBr(_)
NormalizeBr(s) ==
    IF s = <<>> THEN <<>>
    ELSE LET n == BrMatchLen(s)
         IN  IF n > 0 THEN <<"<", "b", "r", "/", ">">> \o NormalizeBr(SubSeq(s, n + 1, Len(s)))
             ELSE <<Head(s)>> \o NormalizeBr(Tail(s))

\* line 238: re.sub(r'\*\*(.*?)\*\*', r'<b>\1</b>', text)
RECURSIVE BoldSpans(_)
BoldSpans(s) ==
    LET i == Find(s, <<"*", "*">>)
    IN  IF i = 0 THEN s
        ELSE LET rest == SubSeq(s, i + 2, Len(s))
                 j    == Find(rest, <<"*", "*">>)
             IN  IF j = 0 THEN s
                 ELSE SubSeq(s, 1, i - 1) \o <<"<", "b", ">">> \o SubSeq(rest, 1, j - 1)
                      \o <<"<", "/", "b", ">">> \o BoldSpans(SubSeq(rest, j + 2, Len(rest)))

\* lines 234-239
format_inline_bold(text) == IF text = <<>> THEN <<>> ELSE BoldSpans(NormalizeBr(text))

\* Paragraph(text, style) parses its text as markup and raises on a <b> that is
\* never closed
ParagraphRaises(text) ==
    LET i == Find(text, <<"<", "b", ">">>)
    IN  i # 0 /\ Find(SubSeq(text, i + 3, Len(text)), <<"<", "/", "b", ">">>) = 0

\* line 247: a row whose cells, joined, hold only '-', ':' and ' '
IsSeparatorRow(row) == Len(row) > 0 /\ CharsOf(Join(row)) \subseteq {"-", ":", " "}

\* line 247
CleanData(parsed_data) == SelectSeq(parsed_data, LAMBDA row : ~IsSeparatorRow(row))

\* line 251: max(len(row) for row in clean_data)
MaxCols(clean_data) == Max({Len(clean_data[i]) : i \in 1..Len(clean_data)})

\* a normalisation that takes the header's width for the table's
NormalizeToHeader(clean_data) ==
    [i \in 1..Len(clean_data) |->
        [j \in 1..Len(clean_data[1]) |->
            IF j <= Len(clean_data[i]) THEN clean_data[i][j] ELSE <<>>]]

\* line 252: [row + [''] * (max_cols - len(row)) for row in clean_data]
Normalize(clean_data) ==
    [i \in 1..Len(clean_data) |->
        clean_data[i] \o [j \in 1..(MaxCols(clean_data) - Len(clean_data[i])) |-> <<>>]]

\* line 280: the number of rows from which a table is no longer kept together
KeepRows == 30

\* the header row left out of the count
KeepsTogetherDataRows(clean_data) == Len(clean_data) - 1 < KeepRows

\* line 280: KeepTogether([t]) if len(clean_data) < 30 else t
KeepsTogether(clean_data) == Len(clean_data) < KeepRows

\* what a call of create_paragraph_table can give: None, an exception, a table;
\* "Pending" before the call, "Idle" where no call is modelled
TableValue(tag) == [tag |-> tag, keep |-> FALSE, rows |-> <<>>, ncols |-> 0]
NoTable == TableValue("None")
TableRaise == TableValue("Raise")

\* lines 261-267: one Paragraph per cell; a cell Paragraph cannot parse raises
CellRaises(normalized_data) ==
    \E i \in 1..Len(normalized_data) : \E j \in 1..Len(normalized_data[i]) :
        ParagraphRaises(format_inline_bold(normalized_data[i][j]))

\* lines 241-280
create_paragraph_table(lines) ==
    IF lines = <<>> THEN NoTable
    ELSE LET clean_data == CleanData(parse_markdown_table(lines))
         IN  IF clean_data = <<>> THEN NoTable
             ELSE LET normalized_data == Normalize(clean_data)
                  IN  IF CellRaises(normalized_data) THEN TableRaise
                      ELSE [tag   |-> "Table",
                            keep  |-> KeepsTogether(clean_data),
                            rows  |-> [i \in 1..Len(normalized_data) |->
                                         [j \in 1..Len(normalized_data[i]) |->
                                            format_inline_bold(normalized_data[i][j])]],
                            ncols |-> MaxCols(clean_data)]

-----------------------------------------------------------------------------
(* create_paragraph_table on its own: SpecTable *)

\* raw table lines, as save_to_pdf buffers them: stripped, beginning with '|'
TL_AB     == <<"|", " ", "A", " ", "|", " ", "B", " ", "|">>      \* | A | B |
TL_Sep    == <<"|", "-", "-", "-", "|", "-", "-", "-", "|">>      \* |---|---|
TL_12     == <<"|", " ", "1", " ", "|", " ", "2", " ", "|">>      \* | 1 | 2 |
TL_a      == <<"|", "a", "|">>                                    \* |a|
TL_abc    == <<"|", "a", "|", "b", "|", "c">>                     \* |a|b|c
TL_Colon  == <<"|", ":", "-", " ", "|">>                          \* |:- |
TL_Bar    == <<"|">>                                              \* |
TL_Empty  == <<"|", "a", "|", "|", "b", "|", "|">>                \* |a||b||
TL_Bold   == <<"|", "*", "*", "b", "*", "*", "|", "-", "|">>      \* |**b**|-|
TL_Open   == <<"|", "<", "b", ">", "x", "|">>                     \* |<b>x|

TableLines == {TL_AB, TL_Sep, TL_12, TL_a, TL_abc, TL_Colon, TL_Bar, TL_Empty, TL_Bold, TL_Open}

\* the longest buffer of arbitrary table lines
MaxTableLines == 3
\* the most data rows of a long regular table
MaxDataRows == 31

RECURSIVE SeqsUpTo(_, _)
SeqsUpTo(S, n) ==
    IF n = 0 THEN {<<>>}
    ELSE LET shorter == SeqsUpTo(S, n - 1)
         IN  shorter \cup {Append(q, x) : q \in {r \in shorter : Len(r) = n - 1}, x \in S}

SmallBuffers == SeqsUpTo(TableLines, MaxTableLines) \ {<<>>}

\* a header, an optional separator line, n data lines
LongBuffer(n, sep) ==
    <<TL_AB>> \o (IF sep THEN <<TL_Sep>> ELSE <<>>) \o [i \in 1..n |-> TL_12]

LongBuffers == {LongBuffer(n, sep) : n \in 0..MaxDataRows, sep \in BOOLEAN}

IdleTable == raw_data_lines = <<>> /\ table_out = TableValue("Idle")
IdleImage == im = [w |-> 0, h |-> 0] /\ draw = [tag |-> "Idle", w |-> <<0, 1>>, h |-> <<0, 1>>]
IdleLayout ==
    /\ md_lines = <<>> /\ idx = 0 /\ story = <<>> /\ table_buffer = <<>>
    /\ in_table = FALSE /\ pc = "idle" /\ result = "none"
IdleExtract ==
    /\ doc = <<>> /\ page_index = 0 /\ img_index = 0 /\ img_count = 0
    /\ image_data = <<>> /\ temp_img = {} /\ scanned = <<>> /\ xpc = "idle"
IdleMain ==
    /\ input_files = <<>> /\ file_index = 0 /\ input_dir = {} /\ processed_dir = {}
    /\ temp_dir = {} /\ img_data = {} /\ mpc = "idle" /\ outcome = <<>> /\ reads = {}
IdleChat ==
    /\ history = <<>> /\ history_toon = [count |-> 0, lines |-> <<>>]
    /\ turns = <<>> /\ cpc = "idle"

InitTable ==
    /\ raw_data_lines \in SmallBuffers \cup LongBuffers
    /\ table_out = TableValue("Pending")
    /\ IdleImage /\ IdleLayout /\ IdleExtract /\ IdleMain /\ IdleChat

\* the call create_paragraph_table(raw_data_lines, styles, available_width)
CallCreateTable ==
    /\ table_out.tag = "Pending"
    /\ table_out' = create_paragraph_table(raw_data_lines)
    /\ UNCHANGED <<raw_data_lines, ivars, lvars, xvars, mvars, cvars>>

NextTable == CallCreateTable

SpecTable == InitTable /\ [][NextTable]_vars

-----------------------------------------------------------------------------
(* Claims about create_paragraph_table, checked under SpecTable *)

TableCalled == table_out.tag \notin {"Pending", "Idle"}

\* a raw line that holds nothing but delimiters, '-', ':' and spaces
IsSeparatorLine(line) == CharsOf(line) \subseteq {"|", "-", ":", " "}

\* the parsed rows that remain once the separator rows are removed
RemainingRows == SelectSeq(parse_markdown_table(raw_data_lines),
                           LAMBDA row : ~(CharsOf(Join(row)) \subseteq {"-", ":", " "}))

\* C1: when create_paragraph_table emits a table, every emitted row has exactly
\* column_count cells, column_count is the largest cell count among the parsed
\* rows left after separator removal, and each emitted row is the remaining row
\* in its place, its cells in order, followed by empty cells only.
C1_RowsPaddedToColumnCount ==
    (TableCalled /\ table_out.tag = "Table") =>
        LET rows == table_out.rows
            rem  == RemainingRows
        IN  /\ Len(rows) = Len(rem)
            /\ \A i \in 1..Len(rows) : Len(rows[i]) = table_out.ncols
            /\ \E i \in 1..Len(rem) : Len(rem[i]) = table_out.ncols
            /\ \A i \in 1..Len(rem) :
                 /\ Len(rem[i]) <= table_out.ncols
                 /\ \A j \in 1..Len(rows[i]) :
                      rows[i][j] = IF j <= Len(rem[i]) THEN format_inline_bold(rem[i][j])
                                   ELSE <<>>

\* a table was emitted from a buffer that held a separator row and a row shorter
\* than the widest one, which was padded
C1_Witness ==
    /\ TableCalled /\ table_out.tag = "Table"
    /\ Len(RemainingRows) < Len(raw_data_lines)
    /\ \E i \in 1..Len(RemainingRows) :
         /\ RemainingRows[1] # <<>>
         /\ Len(RemainingRows[i]) < table_out.ncols
         /\ table_out.rows[i][table_out.ncols] = <<>>

\* the number of data rows of the buffer: its non-separator lines, less the header
DataRowCount == Cardinality({i \in 1..Len(raw_data_lines) :
                                ~IsSeparatorLine(raw_data_lines[i])}) - 1

\* C3 as stated: a table is wrapped as non-splittable exactly when its number of
\* data rows, the header not counted, is below 30 (so 29 data rows are wrapped).
C3_Original_WrappedIffDataRowsBelow30 ==
    (TableCalled /\ table_out.tag = "Table") => (table_out.keep <=> DataRowCount < 30)

\* C3 as amended: a table is wrapped as non-splittable exactly when the number of
\* its rows after separator removal, the header counted, is below 30: 28 data
\* rows are wrapped, 29 and 30 data rows are not.
C3_WrappedIffRowsBelow30 ==
    (TableCalled /\ table_out.tag = "Table") => (table_out.keep <=> DataRowCount + 1 < 30)

\* a table of a header and 29 data rows was emitted, not wrapped
C3_Witness ==
    TableCalled /\ table_out.tag = "Table" /\ DataRowCount = 29 /\ ~table_out.keep

-----------------------------------------------------------------------------
(* Lengths in points, as exact fractions <<numerator, denominator>> *)

RECURSIVE GCD(_, _)
GCD(a, b) == IF b = 0 THEN a ELSE GCD(b, a % b)

FracNorm(x) ==
    LET g == GCD(x[1], x[2])
    IN  IF g = 0 THEN x ELSE <<x[1] \div g, x[2] \div g>>

\* x * y, reduced crosswise before multiplying
FracMul(x, y) ==
    LET g1 == GCD(x[1], y[2])
        g2 == GCD(y[1], x[2])
        a  == IF g1 = 0 THEN x[1] ELSE x[1] \div g1
        d  == IF g1 = 0 THEN y[2] ELSE y[2] \div g1
        c  == IF g2 = 0 THEN y[1] ELSE y[1] \div g2
        b  == IF g2 = 0 THEN x[2] ELSE x[2] \div g2
    IN  FracNorm(<<a * c, b * d>>)

\* x / y, for y # 0
FracDiv(x, y) == FracMul(x, <<y[2], y[1]>>)

FracSub(x, y) ==
    LET g == GCD(x[2], y[2])
    IN  FracNorm(<<x[1] * (y[2] \div g) - y[1] * (x[2] \div g), (x[2] \div g) * y[2]>>)

\* x < y
FracLess(x, y) ==
    LET g == GCD(x[2], y[2])
    IN  x[1] * (y[2] \div g) < y[1] * (x[2] \div g)

FracLeq(x, y) == ~FracLess(y, x)

FracInt(n) == <<n, 1>>

\* reportlab.lib.units: inch = 72.0, cm = inch / 2.54
cm == <<3600, 127>>
\* reportlab.lib.pagesizes: A4 = (210 * mm, 297 * mm)
A4Width == FracMul(FracInt(21), cm)
\* line 286
margin == FracMul(FracInt(2), cm)
\* line 288: A4[0] - (2 * margin)
available_width == FracSub(A4Width, FracMul(FracInt(2), margin))
\* line 343: max_h = 10 * cm
max_h == FracMul(FracInt(10), cm)

DrawValue(tag, w, h) == [tag |-> tag, w |-> w, h |-> h]

\* the sizing with the height check left out
ScaleImageWidthOnly(img_w0, img_h0) ==
    IF img_w0 = 0 THEN DrawValue("Raise", <<0, 1>>, <<0, 1>>)
    ELSE LET aspect == FracNorm(<<img_h0, img_w0>>)
             wide   == FracLess(available_width, FracInt(img_w0))
             img_w1 == IF wide THEN available_width ELSE FracInt(img_w0)
             img_h1 == IF wide THEN FracMul(img_w1, aspect) ELSE FracInt(img_h0)
         IN  DrawValue("Drawn", img_w1, img_h1)

\* lines 343-355: aspect = img_h / float(img_w) raises for a zero width; the width
\* is bounded first, then the height, each time recomputing the other dimension
ScaleImage(img_w0, img_h0) ==
    IF img_w0 = 0 THEN DrawValue("Raise", <<0, 1>>, <<0, 1>>)
    ELSE LET aspect == FracNorm(<<img_h0, img_w0>>)
             wide   == FracLess(available_width, FracInt(img_w0))
             img_w1 == IF wide THEN available_width ELSE FracInt(img_w0)
             img_h1 == IF wide THEN FracMul(img_w1, aspect) ELSE FracInt(img_h0)
             tall   == FracLess(max_h, img_h1)
             img_h2 == IF tall THEN max_h ELSE img_h1
             img_w2 == IF tall THEN FracDiv(img_h2, aspect) ELSE img_w1
         IN  DrawValue("Drawn", img_w2, img_h2)

-----------------------------------------------------------------------------
(* The image sizing on its own: SpecImage *)

\* pixel sizes are 0, 1 and the multiples of DimStep up to MaxDimK * DimStep
DimStep == 97
MaxDimK == 10
ImgSizes == {0, 1} \cup {DimStep * k : k \in 1..MaxDimK}

InitImage ==
    /\ im \in [w : ImgSizes, h : ImgSizes]
    /\ draw = DrawValue("Pending", <<0, 1>>, <<0, 1>>)
    /\ IdleTable /\ IdleLayout /\ IdleExtract /\ IdleMain /\ IdleChat

\* lines 341-355 for a loaded image of im.w by im.h pixels
ComputeDrawSize ==
    /\ draw.tag = "Pending"
    /\ draw' = ScaleImage(im.w, im.h)
    /\ UNCHANGED <<im, tvars, lvars, xvars, mvars, cvars>>

NextImage == ComputeDrawSize

SpecImage == InitImage /\ [][NextImage]_vars

-----------------------------------------------------------------------------
(* Claims about the image sizing, checked under SpecImage *)

Sized == draw.tag = "Drawn"
IsWide == 127 * im.w > 61200          \* wider than 170 mm = 61200/127 pt
IsTall == 127 * im.h > 36000          \* taller than 100 mm = 36000/127 pt
WithinWidth == FracLeq(draw.w, <<61200, 127>>)
WithinHeight == FracLeq(draw.h, <<36000, 127>>)
\* drawHeight / drawWidth = h / w, by cross-multiplication
SameAspect == FracMul(draw.h, FracInt(im.w)) = FracMul(draw.w, FracInt(im.h))

\* C7: an image of positive size wider than the available width is drawn no
\* wider than the available width, no taller than 10 cm, and with its aspect
\* ratio; an image not wider than the available width but taller than 10 cm is
\* drawn within the same two bounds.
C7_ScaledWithinBounds ==
    (draw.tag # "Pending" /\ im.w > 0 /\ im.h > 0) =>
        /\ IsWide => (Sized /\ WithinWidth /\ WithinHeight /\ SameAspect)
        /\ (~IsWide /\ IsTall) => (Sized /\ WithinWidth /\ WithinHeight)

\* a wide image whose height, after the width was bounded, still exceeded 10 cm
\* and was scaled a second time
C7_Witness ==
    /\ Sized /\ IsWide /\ im.h > 0
    /\ draw.h = max_h
    /\ FracLess(draw.w, available_width)

-----------------------------------------------------------------------------
(* save_to_pdf: the layout units and the line machine *)

\* a layout unit of the story.  kind: "Paragraph" | "Drawing" | "Spacer" |
\* "PageBreak" | "HeadingGroup" | "ImageGroup" | "Table"; keep: wrapped in
\* KeepTogether; style: the paragraph style, or the height of a Spacer
Unit(kind, style, text) ==
    [kind |-> kind, keep |-> FALSE, style |-> style, text |-> text,
     rows |-> <<>>, dims |-> <<>>]

Para(style, text) == Unit("Paragraph", style, text)
Spacer(height) == Unit("Spacer", height, <<>>)
PageBreak == Unit("PageBreak", "", <<>>)

\* lines 269-280: the Table, or KeepTogether([Table])
TableUnit(t) == [Unit("Table", "", <<>>) EXCEPT !.keep = t.keep, !.rows = t.rows]

\* lines 372-379: KeepTogether([Spacer, Paragraph(text, style_h1), d_h1, Spacer])
HeadingGroup(text) == [Unit("HeadingGroup", "WikiH1", text) EXCEPT !.keep = TRUE]

\* lines 357-363: KeepTogether([Spacer, im, Spacer, Paragraph("▲ " + caption), Spacer]);
\* "^" stands for the caption's triangle glyph
ImageGroup(caption, d) ==
    [Unit("ImageGroup", "Caption", <<"^", " ">> \o caption) EXCEPT
        !.keep = TRUE, !.dims = <<d.w, d.h>>]

\* lines 301-308: the title, the rule under it, a spacer; "T" stands for the
\* title text made from the file name
TitleText == <<"T">>
InitialStory == <<Para("MainTitle", TitleText), Unit("Drawing", "", <<>>), Spacer("1cm")>>

\* the image map handed to save_to_pdf: label -> caption, whether PDFImage can
\* load the file at info['path'], and the pixel size it reports.  F2 is an image
\* of width 0, F3 a file that cannot be loaded
LabelF1 == <<"F", "1">>
LabelF2 == <<"F", "2">>
LabelF3 == <<"F", "3">>
ImageLabels == {LabelF1, LabelF2, LabelF3}
ImageInfo(label) ==
    IF label = LabelF2 THEN [caption |-> <<"d">>, loads |-> TRUE, w |-> 0, h |-> 291]
    ELSE IF label = LabelF3 THEN [caption |-> <<"e">>, loads |-> FALSE, w |-> 0, h |-> 0]
    ELSE [caption |-> <<"c">>, loads |-> TRUE, w |-> 970, h |-> 291]

\* line 335: re.match(r'\[\[IMG:\s*(.*?)\]\]', line): the tag at the start of the
\* line; group 1 runs from the first non-space character to the first "]]"
ImgPrefix == <<"[", "[", "I", "M", "G", ":">>
ImgMatch(line) ==
    IF ~StartsWith(line, ImgPrefix) THEN [matched |-> FALSE, group |-> <<>>]
    ELSE LET rest == LStripWhile(SubSeq(line, Len(ImgPrefix) + 1, Len(line)), {" "})
             i    == Find(rest, <<"]", "]">>)
         IN  IF i = 0 THEN [matched |-> FALSE, group |-> <<>>]
             ELSE [matched |-> TRUE, group |-> SubSeq(rest, 1, i - 1)]

\* a key that is only trimmed
LabelKeyTrimmed(group) == Strip(group)

\* line 337: img_match.group(1).strip().replace(" ", "")
LabelKey(group) == Replace(Strip(group), <<" ">>, <<>>)

\* the number of units in the story above which a level-1 heading breaks the page
BreakAfter == 5

NeedsBreakAtLeast(n) == n >= BreakAfter

\* line 370: len(story) > 5
NeedsBreak(n) == n > BreakAfter

\* the state of the loop: the story, the table buffer, the flag, and whether an
\* exception left save_to_pdf
Loop(st, tb, it, raised) ==
    [story |-> st, table_buffer |-> tb, in_table |-> it, raised |-> raised]

\* a unit, or an exception when Paragraph cannot parse its text
AppendPara(st, style, text) ==
    IF ParagraphRaises(text) THEN [story |-> st, raised |-> TRUE]
    ELSE [story |-> Append(st, Para(style, text)), raised |-> FALSE]

\* a miss that leaves a placeholder in the story
ImageUnitsPlaceholder(st, label_key) ==
    IF label_key \in ImageLabels
    THEN LET info == ImageInfo(label_key)
             d    == ScaleImage(info.w, info.h)
         IN  IF ~info.loads \/ d.tag = "Raise"
                    \/ ParagraphRaises(<<"^", " ">> \o info.caption) THEN st
             ELSE Append(st, ImageGroup(info.caption, d))
    ELSE Append(st, Para("WikiBody", label_key))

\* an image block that appends its leading spacer before the image is loaded
ImageUnitsPartial(st, label_key) ==
    IF label_key \in ImageLabels
    THEN LET info == ImageInfo(label_key)
             d    == ScaleImage(info.w, info.h)
         IN  IF ~info.loads \/ d.tag = "Raise"
                    \/ ParagraphRaises(<<"^", " ">> \o info.caption)
             THEN Append(st, Spacer("0.5cm"))
             ELSE Append(st, ImageGroup(info.caption, d))
    ELSE st

\* lines 338-365: a known label gives one image group, unless loading, sizing or
\* the caption paragraph raises, which is caught; an unknown label gives nothing
ImageUnits(st, label_key) ==
    IF label_key \in ImageLabels
    THEN LET info == ImageInfo(label_key)
             d    == ScaleImage(info.w, info.h)
         IN  IF ~info.loads \/ d.tag = "Raise"
                    \/ ParagraphRaises(<<"^", " ">> \o info.caption) THEN st
             ELSE Append(st, ImageGroup(info.caption, d))
    ELSE st

H1 == <<"#", " ">>
H2 == <<"#", "#", " ">>
H3 == <<"#", "#", "#", " ">>
H4 == <<"#", "#", "#", "#", " ">>

\* lines 332-389: a stripped line that does not begin with '|', in the Normal
\* state, appended to story st ("o" stands for the bullet glyph)
NormalLine(st, line) ==
    IF line = <<>> THEN [story |-> st, raised |-> FALSE]
    ELSE IF ImgMatch(line).matched
    THEN [story |-> ImageUnits(st, LabelKey(ImgMatch(line).group)), raised |-> FALSE]
    ELSE IF StartsWith(line, H1)
    THEN LET st1  == IF NeedsBreak(Len(st)) THEN Append(st, PageBreak) ELSE st
             text == Strip(Replace(line, H1, <<>>))
         IN  IF ParagraphRaises(text) THEN [story |-> st1, raised |-> TRUE]
             ELSE [story |-> Append(st1, HeadingGroup(text)), raised |-> FALSE]
    ELSE IF StartsWith(line, H2)
    THEN AppendPara(st, "WikiH2", Strip(Replace(line, H2, <<>>)))
    ELSE IF StartsWith(line, H3)
    THEN AppendPara(st, "WikiH3", Strip(Replace(line, H3, <<>>)))
    ELSE IF StartsWith(line, H4)
    THEN AppendPara(st, "WikiBody",
                    <<"<", "b", ">">> \o Strip(Replace(line, H4, <<>>)) \o <<"<", "/", "b", ">">>)
    ELSE IF StartsWith(line, <<"-", " ">>) \/ StartsWith(line, <<"*", " ">>)
    THEN AppendPara(st, "WikiBullet",
                    <<"o", " ">> \o format_inline_bold(SubSeq(line, 3, Len(line))))
    ELSE AppendPara(st, "WikiBody", format_inline_bold(line))

\* a flush that puts the spacers around the table even when there is no table
FlushUnitsAlwaysSpaced(t) ==
    <<Spacer("0.2cm")>> \o (IF t.tag = "Table" THEN <<TableUnit(t)>> ELSE <<>>)
    \o <<Spacer("0.5cm")>>

\* lines 325-328: if t: spacer, table, spacer
FlushUnits(t) ==
    IF t.tag = "Table" THEN <<Spacer("0.2cm"), TableUnit(t), Spacer("0.5cm")>> ELSE <<>>

\* lines 314-389: one pass of the loop body over the raw line
LoopBody(s, raw) ==
    LET line == Strip(raw)
    IN  IF StartsWith(line, <<"|">>)
        THEN Loop(s.story, Append(s.table_buffer, line), TRUE, FALSE)
        ELSE LET t == IF s.in_table THEN create_paragraph_table(s.table_buffer) ELSE NoTable
             IN  IF t.tag = "Raise" THEN Loop(s.story, s.table_buffer, s.in_table, TRUE)
                 ELSE LET n == NormalLine(s.story \o FlushUnits(t), line)
                      IN  Loop(n.story, <<>>, FALSE, n.raised)

\* the raw lines of the generated markup, before line 315 strips them
L_Blank   == <<>>
L_Text    == <<"x">>                                              \* x
L_H1      == <<"#", " ", "A">>                                    \* # A
L_H2      == <<"#", "#", " ", "B">>                               \* ## B
L_Bullet  == <<"-", " ", "c">>                                    \* - c
L_Row     == <<" ", "|", "a", "|">>                               \*  |a|
L_SepRow  == <<"|", "-", "|">>                                    \* |-|
L_OpenRow == <<"|", "<", "b", ">", "x", "|">>                     \* |<b>x|
L_ImgHit  == ImgPrefix \o <<" ", "F", "1", "]", "]">>             \* [[IMG: F1]]
L_ImgMiss == ImgPrefix \o <<" ", "F", "9", "]", "]">>             \* [[IMG: F9]]

MdVocabulary ==
    {L_Blank, L_Text, L_H1, L_H2, L_Bullet, L_Row, L_SepRow, L_OpenRow, L_ImgHit, L_ImgMiss}

\* the most lines of a document
MaxLines == 3

\* lines 301-312: the story holds the title units, the loop is at the first line
Init ==
    /\ md_lines \in SeqsUpTo(MdVocabulary, MaxLines)
    /\ idx = 0
    /\ story = InitialStory
    /\ table_buffer = <<>>
    /\ in_table = FALSE
    /\ pc = "loop"
    /\ result = "none"
    /\ IdleTable /\ IdleImage /\ IdleExtract /\ IdleMain /\ IdleChat

\* lines 314-389: the loop body for the next line; an exception leaves save_to_pdf
ProcessLine ==
    /\ pc = "loop"
    /\ idx < Len(md_lines)
    /\ LET n == LoopBody(Loop(story, table_buffer, in_table, FALSE), md_lines[idx + 1])
       IN  /\ story' = n.story
           /\ table_buffer' = n.table_buffer
           /\ in_table' = n.in_table
           /\ pc' = IF n.raised THEN "raised" ELSE "loop"
    /\ idx' = idx + 1
    /\ UNCHANGED <<md_lines, result, tvars, ivars, xvars, mvars, cvars>>

\* lines 391-393: after the last line, a buffered table is appended without spacers
FinalTable ==
    /\ pc = "loop"
    /\ idx = Len(md_lines)
    /\ LET t == IF in_table /\ table_buffer # <<>>
                THEN create_paragraph_table(table_buffer) ELSE NoTable
       IN  /\ story' = IF t.tag = "Table" THEN Append(story, TableUnit(t)) ELSE story
           /\ pc' = IF t.tag = "Raise" THEN "raised" ELSE "build"
    /\ UNCHANGED <<md_lines, idx, table_buffer, in_table, result, tvars, ivars, xvars, mvars, cvars>>

\* lines 395-403: doc.build(story) succeeds (return True) or raises (return False)
Build ==
    /\ pc = "build"
    /\ \E ok \in BOOLEAN : result' = IF ok THEN "True" ELSE "False"
    /\ pc' = "returned"
    /\ UNCHANGED <<md_lines, idx, story, table_buffer, in_table, tvars, ivars, xvars, mvars, cvars>>

Next == ProcessLine \/ FinalTable \/ Build

Spec == Init /\ [][Next]_vars

\* markup whose image tags and headings take the less regular forms
L_H3        == <<"#", "#", "#", " ", "D">>                          \* ### D
L_H4        == <<"#", "#", "#", "#", " ", "E">>                     \* #### E
L_H1Sharp   == <<"#", " ", "C", "#", " ", "b">>                     \* # C# b
L_ImgTail   == ImgPrefix \o <<" ", "F", "1", "]", "]", " ", "t">>   \* [[IMG: F1]] t
L_ImgSpaced == ImgPrefix \o <<" ", "F", " ", "1", " ", "]", "]">>   \* [[IMG: F 1 ]]
L_ImgZero   == ImgPrefix \o <<"F", "2", "]", "]">>                  \* [[IMG:F2]]
L_ImgBroken == ImgPrefix \o <<" ", "F", "3", "]", "]">>             \* [[IMG: F3]]

TagVocabulary ==
    {L_Blank, L_Text, L_H1, L_H2, L_H3, L_H4, L_H1Sharp, L_Row,
     L_ImgHit, L_ImgMiss, L_ImgTail, L_ImgSpaced, L_ImgZero, L_ImgBroken}

\* the most lines of such a document
MaxTagLines == 2

\* lines 301-312, for the markup of TagVocabulary
InitTags ==
    /\ md_lines \in SeqsUpTo(TagVocabulary, MaxTagLines)
    /\ idx = 0
    /\ story = InitialStory
    /\ table_buffer = <<>>
    /\ in_table = FALSE
    /\ pc = "loop"
    /\ result = "none"
    /\ IdleTable /\ IdleImage /\ IdleExtract /\ IdleMain /\ IdleChat

SpecTags == InitTags /\ [][Next]_vars

-----------------------------------------------------------------------------
(* Claims about save_to_pdf, checked under Spec *)

Kinds(st) == [i \in 1..Len(st) |-> st[i].kind]

\* the units a step appended to the story
NewUnits == SubSeq(story', Len(story) + 1, Len(story'))
Extends == Len(story') >= Len(story) /\ SubSeq(story', 1, Len(story)) = story

\* the loop is about to consume a line
AtLine == pc = "loop" /\ idx < Len(md_lines)
NextLine == Strip(md_lines[idx + 1])
NextIsTableLine == AtLine /\ NextLine # <<>> /\ NextLine[1] = "|"

\* every buffered line holds only delimiters, '-', ':' and spaces
AllSeparatorBuffer ==
    table_buffer # <<>> /\ \A i \in 1..Len(table_buffer) : IsSeparatorLine(table_buffer[i])

\* C2: a buffer whose rows are all separator rows yields no table, and the step
\* of save_to_pdf that finalizes it (a non-table line, or the end of the input)
\* appends no table and no spacer for it: after a blank line or at the end of
\* the input the story is unchanged, and after any other line the story has
\* grown by that line's own units only.
C2_SeparatorOnlyBufferEmitsNothing ==
    [][(pc = "loop" /\ in_table /\ AllSeparatorBuffer /\ ~NextIsTableLine) =>
        /\ create_paragraph_table(table_buffer).tag = "None"
        /\ pc' # "raised"
        /\ Extends
        /\ \A i \in 1..Len(NewUnits) : NewUnits[i].kind \notin {"Table", "Spacer"}
        /\ Len(NewUnits) <= 2
        /\ (~AtLine \/ NextLine = <<>>) => story' = story
        /\ AtLine => (table_buffer' = <<>> /\ ~in_table')]_vars

\* a single separator line, then a blank line: the buffer was finalized and the
\* story still holds the title units only
C2_Witness ==
    /\ idx = 2 /\ pc = "loop"
    /\ IsSeparatorLine(Strip(md_lines[1])) /\ Strip(md_lines[1]) # <<>>
    /\ Strip(md_lines[2]) = <<>>
    /\ story = InitialStory /\ ~in_table /\ table_buffer = <<>>

HeadingAt(k) == k \in 1..Len(story) /\ story[k].kind = "HeadingGroup"
BreakBefore(k) == k > 1 /\ story[k - 1].kind = "PageBreak"
\* the units emitted before a level-1 heading was processed
UnitsBefore(k) == IF BreakBefore(k) THEN k - 2 ELSE k - 1
IsFirstHeading(k) == HeadingAt(k) /\ \A j \in 1..(k - 1) : ~HeadingAt(j)

\* C4 as stated: a level-1 heading is preceded by a page break exactly when at
\* least 5 units had been emitted before it.
C4_Original_BreakIffAtLeast5 ==
    \A k \in 1..Len(story) : HeadingAt(k) => (BreakBefore(k) <=> UnitsBefore(k) >= 5)

\* C4 as amended: a level-1 heading is preceded by a page break exactly when
\* more than 5 units (the three title units counted) had been emitted before it;
\* with 5 or fewer there is no page break.
C4_BreakIffMoreThan5 ==
    \A k \in 1..Len(story) : HeadingAt(k) => (BreakBefore(k) <=> UnitsBefore(k) > 5)

\* a level-1 heading processed with exactly 5 units emitted, and no page break
C4_Witness ==
    \E k \in 1..Len(story) : HeadingAt(k) /\ UnitsBefore(k) = 5 /\ ~BreakBefore(k)

\* C5 as stated: the first level-1 heading never has a page break before it,
\* and every later one has.
C5_Original_FirstNeverLaterAlways ==
    \A k \in 1..Len(story) : HeadingAt(k) => (BreakBefore(k) <=> ~IsFirstHeading(k))

\* C5 as amended: the first level-1 heading has no page break before it when at
\* most two units besides the three title units were emitted before it, and has
\* one when three or more were; a later level-1 heading has a page break before
\* it when at least two units besides the title units and the first heading
\* group were emitted before it; and of two level-1 headings on the first two
\* lines neither has a page break.
C5_FirstAndLaterHeadings ==
    /\ \A k \in 1..Len(story) :
         /\ (IsFirstHeading(k) /\ UnitsBefore(k) - 3 <= 2) => ~BreakBefore(k)
         /\ (IsFirstHeading(k) /\ UnitsBefore(k) - 3 >= 3) => BreakBefore(k)
         /\ (HeadingAt(k) /\ ~IsFirstHeading(k) /\ UnitsBefore(k) - 3 - 1 >= 2)
                => BreakBefore(k)
    /\ (/\ idx >= 2 /\ pc # "raised"
        /\ StartsWith(Strip(md_lines[1]), <<"#", " ">>)
        /\ StartsWith(Strip(md_lines[2]), <<"#", " ">>))
           => Kinds(SubSeq(story, 1, 5)) =
                <<"Paragraph", "Drawing", "Spacer", "HeadingGroup", "HeadingGroup">>

\* a first level-1 heading without a page break and a later one with a page break
C5_Witness ==
    \E k1, k2 \in 1..Len(story) :
        /\ IsFirstHeading(k1) /\ ~BreakBefore(k1)
        /\ k1 < k2 /\ HeadingAt(k2) /\ BreakBefore(k2)

\* the next line is an image reference whose label has no record
IsMissLine(line) == ImgMatch(line).matched /\ LabelKey(ImgMatch(line).group) \notin ImageLabels
ImgMissNext == AtLine /\ IsMissLine(NextLine)

\* C6 as stated: an image-reference line with an unknown label leaves the story,
\* the table buffer and the table state as they were, as if the line were absent.
C6_Original_MissLineChangesNothing ==
    [][(ImgMissNext /\ pc' = "loop") =>
         (story' = story /\ table_buffer' = table_buffer /\ in_table' = in_table)]_vars

\* C6 as amended: outside a table the line raises no error and leaves the story,
\* the buffer and the state unchanged; directly after table lines it acts exactly
\* as a blank line there: the pending buffer is finalized and the line adds
\* no unit of its own.
C6_MissLineActsAsBlank ==
    [][ImgMissNext =>
         /\ ~in_table =>
              (pc' = "loop" /\ story' = story /\ table_buffer' = table_buffer /\ ~in_table')
         /\ in_table =>
              LET b == LoopBody(Loop(story, table_buffer, in_table, FALSE), <<>>)
              IN  /\ story' = b.story /\ table_buffer' = b.table_buffer
                  /\ in_table' = b.in_table /\ (pc' = "raised") = b.raised
                  /\ Extends
                  /\ Kinds(NewUnits) \in {<<>>, <<"Spacer", "Table", "Spacer">>}]_vars

\* a paragraph, then an image reference with an unknown label: the story holds
\* the title units and the paragraph, and the loop goes on
C6_Witness ==
    /\ idx = 2 /\ pc = "loop"
    /\ Strip(md_lines[1]) = <<"x">>
    /\ IsMissLine(Strip(md_lines[2]))
    /\ Kinds(story) = <<"Paragraph", "Drawing", "Spacer", "Paragraph">>
    /\ Len(md_lines) > 2

\* C10: a failure raised while create_paragraph_table renders the buffered table
\* is caught and the table skipped: save_to_pdf is never left by that exception.
C10_TableFailureIsSkipped ==
    ~(pc = "raised" /\ in_table /\ create_paragraph_table(table_buffer).tag = "Raise")

-----------------------------------------------------------------------------
(* extract_content_from_pdf: the image loop *)

\* line 33
MAX_IMAGES == 50
\* line 178: images of fewer bytes are skipped
MinImageBytes == 5000

\* an embedded image: its byte size, its format, and what fails on it:
\* "extract" (doc.extract_image raises), "open" (open(img_path, "wb") raises and
\* no file is made), "write" (f.write raises after the file was made),
\* "caption" (llm.invoke raises), "none"
Image(size, ext, fault) == [size |-> size, ext |-> ext, fault |-> fault]
SmallPng    == Image(MinImageBytes - 1, "png", "none")
BigPng      == Image(MinImageBytes, "png", "none")
BigJpeg     == Image(MinImageBytes + 1, "jpeg", "none")
BigPngFail  == Image(MinImageBytes, "png", "caption")
BigJpegFail == Image(MinImageBytes + 1, "jpeg", "caption")
Unreadable  == Image(0, "png", "extract")
BigPngShut  == Image(MinImageBytes, "png", "open")
BigJpegCut  == Image(MinImageBytes + 1, "jpeg", "write")
ImageKinds ==
    {SmallPng, BigPng, BigJpeg, BigPngFail, BigJpegFail, Unreadable, BigPngShut, BigJpegCut}

\* the most images of a small document
MaxDocImages == 3
\* how far the first page of a large document goes past MAX_IMAGES
CapSlack == 1

\* a small document: any images, on two pages, cut anywhere
SmallDocs ==
    UNION {{<<SubSeq(imgs, 1, cut), SubSeq(imgs, cut + 1, Len(imgs))>> : cut \in 0..Len(imgs)} :
              imgs \in SeqsUpTo(ImageKinds, MaxDocImages)}

\* a large document: three pages of images that qualify and are captioned
LargeDoc(n1, n2) == <<[i \in 1..n1 |-> BigPng], [i \in 1..n2 |-> BigJpeg], <<BigPng>>>>
LargeDocs ==
    {LargeDoc(n1, n2) : n1 \in (MAX_IMAGES - 1)..(MAX_IMAGES + CapSlack), n2 \in 0..2}

\* the state of the image loop: the count, the map, the scratch directory
Harvest(cnt, data, files) == [img_count |-> cnt, image_data |-> data, temp_img |-> files]

\* a write that leaves a file of that name as it is
WriteFileKeepOld(files, name, id) ==
    IF \E f \in files : f.name = name THEN files
    ELSE files \cup {[name |-> name, img |-> id]}

\* line 182-183: open(img_path, "wb") creates the file or replaces its content
WriteFile(files, name, id) == {f \in files : f.name # name} \cup {[name |-> name, img |-> id]}

\* an image loop that counts an image before its caption is there
VisitCountsFirst(h, img, id) ==
    IF img.fault = "extract" \/ img.size < MinImageBytes THEN h
    ELSE IF img.fault = "open" THEN h
    ELSE LET n     == h.img_count + 1
             name  == <<n, img.ext>>
             files == WriteFile(h.temp_img, name, id)
         IN  IF img.fault \in {"write", "caption"} THEN Harvest(n, h.image_data, files)
             ELSE Harvest(n, (n :> [label |-> n, path |-> name, img |-> id]) @@ h.image_data,
                          files)

\* lines 172-202: the body of the inner loop for image img, met at place id; every
\* exception is caught at line 201 and the image skipped: one of extract_image
\* and of open before anything is written, one of f.write and of llm.invoke with
\* the file left in the scratch directory
Visit(h, img, id) ==
    IF img.fault = "extract" \/ img.size < MinImageBytes THEN h
    ELSE IF img.fault = "open" THEN h
    ELSE LET n     == h.img_count + 1
             name  == <<n, img.ext>>
             files == WriteFile(h.temp_img, name, id)
         IN  IF img.fault \in {"write", "caption"} THEN Harvest(h.img_count, h.image_data, files)
             ELSE Harvest(n, (n :> [label |-> n, path |-> name, img |-> id]) @@ h.image_data,
                          files)

\* what rmtree(ignore_errors=True) may leave in the scratch directory: nothing,
\* or a file of an earlier document (place <<0, 1>>) that could not be removed
Leftovers == {{}, {[name |-> <<1, "png">>, img |-> <<0, 1>>]}}

\* lines 154-167: the scratch directory was cleared, as far as its files could
\* be removed, and recreated
InitExtract ==
    /\ doc \in SmallDocs \cup LargeDocs
    /\ page_index = 1
    /\ img_index = 0
    /\ img_count = 0
    /\ image_data = <<>>
    /\ temp_img \in Leftovers
    /\ scanned = <<>>
    /\ xpc = "page"
    /\ IdleTable /\ IdleImage /\ IdleLayout /\ IdleMain /\ IdleChat

\* the cap is tested when a page is entered
MayEnterPage == page_index <= Len(doc) /\ img_count < MAX_IMAGES

\* lines 168-171: the next page is entered, its image list is read
EnterPage ==
    /\ xpc = "page"
    /\ MayEnterPage
    /\ xpc' = "image"
    /\ img_index' = 0
    /\ UNCHANGED <<doc, page_index, img_count, image_data, temp_img, scanned,
                   tvars, ivars, lvars, mvars, cvars>>

\* lines 171-202: one image of the page
VisitImage ==
    /\ xpc = "image"
    /\ img_index < Len(doc[page_index])
    /\ LET id == <<page_index, img_index + 1>>
           h  == Visit(Harvest(img_count, image_data, temp_img),
                       doc[page_index][img_index + 1], id)
       IN  /\ img_count' = h.img_count
           /\ image_data' = h.image_data
           /\ temp_img' = h.temp_img
           /\ scanned' = Append(scanned, id)
    /\ img_index' = img_index + 1
    /\ UNCHANGED <<doc, page_index, xpc, tvars, ivars, lvars, mvars, cvars>>

\* line 171: the page's images are exhausted
LeavePage ==
    /\ xpc = "image"
    /\ img_index = Len(doc[page_index])
    /\ page_index' = page_index + 1
    /\ xpc' = "page"
    /\ UNCHANGED <<doc, img_index, img_count, image_data, temp_img, scanned,
                   tvars, ivars, lvars, mvars, cvars>>

\* lines 169, 204-206: no page is left, or the cap stops the loop; the map is returned
Return ==
    /\ xpc = "page"
    /\ ~MayEnterPage
    /\ xpc' = "returned"
    /\ UNCHANGED <<doc, page_index, img_index, img_count, image_data, temp_img, scanned,
                   tvars, ivars, lvars, mvars, cvars>>

NextExtract == EnterPage \/ VisitImage \/ LeavePage \/ Return

SpecExtract == InitExtract /\ [][NextExtract]_vars

-----------------------------------------------------------------------------
(* Claims about extract_content_from_pdf, checked under SpecExtract *)

\* C8: the number of accepted images never exceeds MAX_IMAGES (50), however the
\* qualifying images are spread over the pages.
C8_AcceptedNeverExceedsCap == img_count <= 50

ImageAt(id) == doc[id[1]][id[2]]
\* the scanned images of at least 5000 bytes whose captioning succeeded
Qualified == SelectSeq(scanned, LAMBDA id : ImageAt(id).size >= 5000 /\ ImageAt(id).fault = "none")
\* every image of every page the loop entered, in page and list order
RECURSIVE PlacesUpTo(_)
PlacesUpTo(p) ==
    IF p = 0 THEN <<>>
    ELSE PlacesUpTo(p - 1) \o [i \in 1..Len(doc[p]) |-> <<p, i>>]

\* C9: extraction always goes on to its return whatever captioning calls fail,
\* and the returned map holds exactly the scanned images of at least 5000 bytes
\* whose captioning succeeded, under the labels 1..n in scan order: an image
\* below the threshold or without caption has no label and uses up no number.
C9_MapIsQualifiedImagesInOrder ==
    /\ xpc \in {"page", "image"} => ENABLED NextExtract
    /\ xpc = "returned" =>
         /\ scanned = PlacesUpTo(page_index - 1)
         /\ DOMAIN image_data = 1..Len(Qualified)
         /\ img_count = Len(Qualified)
         /\ \A k \in 1..Len(Qualified) :
              image_data[k].img = Qualified[k] /\ image_data[k].label = k

\* extraction returned, and the image labelled 1 was scanned after a small image
\* and after an image whose captioning failed
C9_Witness ==
    /\ xpc = "returned"
    /\ 1 \in DOMAIN image_data
    /\ \E i, j, m \in 1..Len(scanned) :
         /\ i < m /\ j < m
         /\ ImageAt(scanned[i]).size < 5000
         /\ ImageAt(scanned[j]).fault = "caption"
         /\ image_data[1].img = scanned[m]

-----------------------------------------------------------------------------
(* main of PDF.py: the batch loop over the source documents *)

\* the most source documents in INPUT_DIR
MaxFiles == 2
\* the most images extraction meets in one source document
MaxWritten == 1

\* lines 164-165: shutil.rmtree(TEMP_IMG_DIR, ignore_errors=True), then mkdir
\* with exist_ok: every file that can be removed is removed, a failure to remove
\* (the path is a symbolic link, a file is held open) is swallowed and the file
\* stays.  The directories that may be left
ClearScratch(files) == SUBSET files

\* lines 168-202 for the images imgs of document k, met in this order: each goes
\* through the body of the inner loop; a scratch file records in img the
\* document it was written from
RECURSIVE HarvestOf(_, _, _)
HarvestOf(h, imgs, k) ==
    IF imgs = <<>> THEN h
    ELSE HarvestOf(Visit(h, Head(imgs), k), Tail(imgs), k)

\* the images of a source document of the batch run, one for every way the loop
\* body ends: accepted (either format), skipped with its file left behind
\* (either format), skipped with no file
BatchImages == {BigPng, BigJpeg, BigPngFail, BigJpegFail, BigPngShut}

\* the paths the returned map names
PathsOf(data) == {data[n].path : n \in DOMAIN data}

\* the two directories and how the pass ended
Moved(inp, proc, how) == [input |-> inp, processed |-> proc, how |-> how]

\* a loop that moves the source file whatever save_to_pdf returned
MoveAlways(saved, f, inp, proc) ==
    {Moved(inp \ {f}, proc \cup {f}, IF saved THEN "saved" ELSE "build_failed")}

\* lines 418-421: if save_to_pdf(...): an older file of that name in
\* PROCESSED_DIR is removed and the source file moved there.  os.remove may raise
\* (nothing changes); shutil.move may raise before anything was moved (the older
\* file is gone) or after the copy was made and before the source was deleted;
\* each exception goes to the except clause of line 423.  The set of outcomes
MoveIfSaved(saved, f, inp, proc) ==
    IF ~saved THEN {Moved(inp, proc, "build_failed")}
    ELSE {Moved(inp \ {f}, proc \cup {f}, "saved"),
          Moved(inp, proc \ {f}, "move_error"),
          Moved(inp, proc \cup {f}, "move_error")}
         \cup (IF f \in proc THEN {Moved(inp, proc, "move_error")} ELSE {})

\* lines 408-411: the input files are listed once; the processed directory and
\* the scratch directory hold what earlier runs left (a file written from
\* document 0)
InitMain ==
    /\ \E n \in 0..MaxFiles :
         /\ input_files = [i \in 1..n |-> i]
         /\ input_dir = 1..n
         /\ outcome = [i \in 1..n |-> "pending"]
         /\ processed_dir \in SUBSET (1..n)
    /\ file_index = 1
    /\ temp_dir \in {{}, {[name |-> <<1, "png">>, img |-> 0]}}
    /\ img_data = {}
    /\ mpc = "next"
    /\ reads = {}
    /\ IdleTable /\ IdleImage /\ IdleLayout /\ IdleExtract /\ IdleChat

\* lines 423-426 and the loop header: the pass over pdf_file ended as how
EndPass(how) ==
    /\ outcome' = [outcome EXCEPT ![file_index] = how]
    /\ file_index' = file_index + 1
    /\ img_data' = {}
    /\ mpc' = "next"

\* lines 154-165: the document is opened and its text read, which may raise;
\* then the scratch directory is cleared as far as its files can be removed
BeginExtract ==
    /\ mpc = "next"
    /\ file_index <= Len(input_files)
    /\ \E ok \in BOOLEAN :
         IF ok
         THEN /\ temp_dir' \in ClearScratch(temp_dir)
              /\ mpc' = "extracting"
              /\ UNCHANGED <<file_index, img_data, outcome>>
         ELSE /\ EndPass("extract_error")
              /\ UNCHANGED temp_dir
    /\ UNCHANGED <<input_files, input_dir, processed_dir, reads, tvars, ivars, lvars, xvars, cvars>>

\* lines 167-206: the image loop over the document's images: every image of at
\* least 5000 bytes is written to img_<n>.<ext> and, when its caption is there,
\* entered in the map; one that fails is skipped, its file staying if it was
\* made.  Reading a page's image list may raise after some images were handled;
\* otherwise the map is returned
ExtractImages ==
    /\ mpc = "extracting"
    /\ \E imgs \in SeqsUpTo(BatchImages, MaxWritten), ok \in BOOLEAN :
         LET h == HarvestOf(Harvest(0, <<>>, temp_dir), imgs, file_index)
         IN  /\ temp_dir' = h.temp_img
             /\ IF ok
                THEN /\ img_data' = PathsOf(h.image_data)
                     /\ mpc' = "summarize"
                     /\ UNCHANGED <<file_index, outcome>>
                ELSE EndPass("extract_error")
    /\ UNCHANGED <<input_files, input_dir, processed_dir, reads, tvars, ivars, lvars, xvars, cvars>>

\* line 416: generate_summary returns the markup or raises
Summarize ==
    /\ mpc = "summarize"
    /\ \E ok \in BOOLEAN :
         IF ok THEN mpc' = "layout" /\ UNCHANGED <<file_index, img_data, outcome>>
         ELSE EndPass("summary_error")
    /\ UNCHANGED <<input_files, input_dir, processed_dir, temp_dir, reads,
                   tvars, ivars, lvars, xvars, cvars>>

\* lines 282-393: the story is assembled; some of the files the map names are
\* opened (those the markup refers to); an exception of the loop leaves
\* save_to_pdf and is caught by main
Layout ==
    /\ mpc = "layout"
    /\ \E used \in SUBSET img_data, ok \in BOOLEAN :
         /\ reads' = reads \cup
                {<<file_index, f.img>> : f \in {g \in temp_dir : g.name \in used}}
         /\ IF ok THEN mpc' = "build" /\ UNCHANGED <<file_index, img_data, outcome>>
            ELSE EndPass("layout_error")
    /\ UNCHANGED <<input_files, input_dir, processed_dir, temp_dir,
                   tvars, ivars, lvars, xvars, cvars>>

\* lines 395-403, 418-426: doc.build gives True or False; on True the file is
\* moved, unless the removal of an older file or the move raises
BuildAndMove ==
    /\ mpc = "build"
    /\ \E saved \in BOOLEAN :
         \E m \in MoveIfSaved(saved, input_files[file_index], input_dir, processed_dir) :
            /\ input_dir' = m.input
            /\ processed_dir' = m.processed
            /\ EndPass(m.how)
    /\ UNCHANGED <<input_files, temp_dir, reads, tvars, ivars, lvars, xvars, cvars>>

\* line 413: the list is exhausted
EndMain ==
    /\ mpc = "next"
    /\ file_index > Len(input_files)
    /\ mpc' = "done"
    /\ UNCHANGED <<input_files, file_index, input_dir, processed_dir, temp_dir, img_data,
                   outcome, reads, tvars, ivars, lvars, xvars, cvars>>

NextMain == BeginExtract \/ ExtractImages \/ Summarize \/ Layout \/ BuildAndMove \/ EndMain

SpecMain == InitMain /\ [][NextMain]_vars

-----------------------------------------------------------------------------
(* Claims about main of PDF.py, checked under SpecMain *)

\* the source files whose pass has ended
PassedFiles == {k \in 1..Len(input_files) : outcome[k] # "pending"}

\* extraction, summarization and save_to_pdf (returning True) all succeeded
AllSucceeded(k) == outcome[k] \in {"saved", "move_error"}

\* C11 as stated: a source document is moved from the input directory to the
\* processed directory exactly when its extraction, its summarization and
\* save_to_pdf (returning True) all succeeded.
C11_Original_MovedIffAllSucceeded ==
    \A k \in PassedFiles : AllSucceeded(k) <=> (input_files[k] \notin input_dir)

\* C11 as amended: a source document has left the input directory exactly when
\* extraction, summarization and save_to_pdf (returning True) all succeeded and
\* neither the removal of an older processed file nor the move raised, and it
\* is then in the processed directory; after an extraction error, a
\* summarization error, an exception leaving save_to_pdf, a failed build or a
\* failed move it is still in the input directory, and the loop goes on: when
\* main ends, every listed file has had its pass.
C11_MovedIffAllSucceededAndMoved ==
    /\ \A k \in PassedFiles :
         /\ outcome[k] = "saved" <=> (input_files[k] \notin input_dir)
         /\ outcome[k] = "saved" => input_files[k] \in processed_dir
         /\ outcome[k] \in {"extract_error", "summary_error", "layout_error", "build_failed",
                            "move_error"}
              => input_files[k] \in input_dir
    /\ \A k \in 1..Len(input_files) :
         outcome[k] = "pending" => input_files[k] \in input_dir
    /\ mpc \in {"extracting", "summarize", "layout", "build"} => file_index \notin PassedFiles
    /\ mpc = "done" => PassedFiles = 1..Len(input_files)

\* main ended: the first document was saved but its move raised, and it stayed
\* in the input directory; the second was saved and moved
C11_Witness ==
    /\ mpc = "done"
    /\ Len(input_files) = 2
    /\ outcome[1] = "move_error" /\ 1 \in input_dir /\ 1 \notin processed_dir
    /\ outcome[2] = "saved" /\ 2 \notin input_dir /\ 2 \in processed_dir

\* document k is summarized, laid out or built
InUse(k) == k = file_index /\ mpc \in {"summarize", "layout", "build"}

\* C16: at most one extraction is in flight and it starts only after the pass
\* over every earlier document has ended; while a document is summarized, laid
\* out and built the scratch directory is neither cleared nor written; and every
\* image file layout opened for document k was extracted from document k.
C16_ScratchBelongsToCurrentDocument ==
    /\ [](/\ mpc = "extracting" => \A j \in 1..(file_index - 1) : outcome[j] # "pending"
          /\ \A r \in reads : r[1] = r[2])
    /\ [][(\E k \in 1..Len(input_files) : InUse(k)) => temp_dir' = temp_dir]_vars

\* the second document is built after the first was: both opened an image file
\* of their own, the second one img_1.png, although img_1.jpeg of the first
\* document, which the clearing could not remove, is still in the scratch
\* directory
C16_Witness ==
    /\ mpc = "build" /\ file_index = 2
    /\ {<<1, 1>>, <<2, 2>>} \subseteq reads
    /\ [name |-> <<1, "jpeg">>, img |-> 1] \in temp_dir
    /\ [name |-> <<1, "png">>, img |-> 2] \in temp_dir
    /\ outcome[1] # "pending"

-----------------------------------------------------------------------------
(* Claims about image tags and headings in save_to_pdf, checked under SpecTags *)

\* the line begins with an image tag
IsTagLine(line) == ImgMatch(line).matched
\* what follows the tag's closing "]]" on the line
TagTail(line) ==
    LET rest == LStripWhile(SubSeq(line, Len(ImgPrefix) + 1, Len(line)), {" "})
        i    == Find(rest, <<"]", "]">>)
    IN  SubSeq(rest, i + 2, Len(rest))
\* the label between "[[IMG:" and "]]", as written
TagLabel(line) == ImgMatch(line).group
WithoutSpaces(t) == SelectSeq(t, LAMBDA c : c # " ")
TagNext == AtLine /\ ~in_table /\ IsTagLine(NextLine)

\* C12: in the Normal state a line that starts with an image tag and goes on
\* with further text is not an image reference: it is laid out by the lower
\* rules (here: as a body paragraph of the whole line), so its trailing text is
\* in the story.
C12_TagWithTrailingTextIsParagraph ==
    [][(TagNext /\ TagTail(NextLine) # <<>>) =>
         story' = Append(story, Para("WikiBody", format_inline_bold(NextLine)))]_vars

\* the image group a resolved label gives
GroupOf(label) ==
    LET info == ImageInfo(label)
    IN  ImageGroup(info.caption, ScaleImage(info.w, info.h))
ImageFails(label) == ~ImageInfo(label).loads \/ ImageInfo(label).w = 0

\* C17 as stated: the key is the label with only its leading and trailing
\* whitespace removed, so a tag resolves to the record of exactly that trimmed
\* label, and a label with a space inside never resolves to the record whose
\* label is the same text without the space.
C17_Original_KeyIsTrimmedLabel ==
    [][TagNext =>
         story' = IF Strip(TagLabel(NextLine)) \in ImageLabels
                     /\ ~ImageFails(Strip(TagLabel(NextLine)))
                  THEN Append(story, GroupOf(Strip(TagLabel(NextLine))))
                  ELSE story]_vars

\* C17 as amended: the key is the label with its leading and trailing whitespace
\* and every space inside it removed, so a tag resolves to the record whose
\* label is the tag's label without its spaces.
C17_KeyIsLabelWithoutSpaces ==
    [][TagNext =>
         story' = IF WithoutSpaces(TagLabel(NextLine)) \in ImageLabels
                     /\ ~ImageFails(WithoutSpaces(TagLabel(NextLine)))
                  THEN Append(story, GroupOf(WithoutSpaces(TagLabel(NextLine))))
                  ELSE story]_vars

\* the tag "[[IMG: F 1 ]]" was laid out as the image of record F1
C17_Witness ==
    /\ idx = 1 /\ pc = "loop"
    /\ TagLabel(Strip(md_lines[1])) = <<"F", " ", "1", " ">>
    /\ Len(story) = Len(InitialStory) + 1
    /\ story[Len(story)] = GroupOf(LabelF1)

\* the next line is a tag whose record's image cannot be loaded or has width 0
FailingImageNext ==
    /\ AtLine /\ IsTagLine(NextLine)
    /\ WithoutSpaces(TagLabel(NextLine)) \in ImageLabels
    /\ ImageFails(WithoutSpaces(TagLabel(NextLine)))

\* C18: a failure while the image of a resolved tag is loaded or scaled (an
\* image of width 0 included) is caught: the step appends no unit for the image,
\* leaves save_to_pdf in its loop, and the lines after it are laid out; after
\* table lines the step is that of a blank line.
C18_ImageFailureIsSkipped ==
    [][FailingImageNext =>
         /\ ~in_table =>
              (pc' = "loop" /\ story' = story /\ table_buffer' = table_buffer /\ ~in_table')
         /\ in_table =>
              LET b == LoopBody(Loop(story, table_buffer, in_table, FALSE), <<>>)
              IN  /\ story' = b.story /\ table_buffer' = b.table_buffer
                  /\ in_table' = b.in_table /\ (pc' = "raised") = b.raised]_vars

\* an image of width 0, then a paragraph: the story holds the title units and
\* the paragraph, and save_to_pdf went on to the build
C18_Witness ==
    /\ pc = "build" /\ Len(md_lines) = 2
    /\ Strip(md_lines[1]) = L_ImgZero
    /\ Strip(md_lines[2]) = L_Text
    /\ story = Append(InitialStory, Para("WikiBody", <<"x">>))

\* the heading token a line begins with, <<>> when it is no heading
HeadingToken(line) ==
    IF StartsWith(line, H1) THEN H1
    ELSE IF StartsWith(line, H2) THEN H2
    ELSE IF StartsWith(line, H3) THEN H3
    ELSE IF StartsWith(line, H4) THEN H4
    ELSE <<>>
\* the line without its leading token, trimmed
AfterToken(line) == Strip(SubSeq(line, Len(HeadingToken(line)) + 1, Len(line)))

\* C19: the text of the unit made for a heading line of level 1 to 4 is the
\* trimmed line without its leading token, trimmed again (in bold tags at level
\* 4): a later occurrence of the token inside the text stays.
C19_HeadingTextIsLineWithoutLeadingToken ==
    [][(AtLine /\ ~in_table /\ HeadingToken(NextLine) # <<>> /\ pc' = "loop") =>
         /\ Len(story') > Len(story)
         /\ story'[Len(story')].text =
              IF HeadingToken(NextLine) = H4
              THEN <<"<", "b", ">">> \o AfterToken(NextLine) \o <<"<", "/", "b", ">">>
              ELSE AfterToken(NextLine)]_vars

-----------------------------------------------------------------------------
(* A claim about parse_markdown_table, checked under SpecTable *)

\* the cells of a raw line split on '|', less the one empty cell before a leading
\* delimiter and the one empty cell after a trailing delimiter, each trimmed
DelimitedCells(line) ==
    LET cells == Split(line, "|")
        from  == IF line # <<>> /\ line[1] = "|" THEN 2 ELSE 1
        to    == IF Len(line) > 1 /\ line[Len(line)] = "|" THEN Len(cells) - 1 ELSE Len(cells)
    IN  [i \in 1..(to - from + 1) |-> Strip(cells[from + i - 1])]

\* the lines of the buffer that are no separator lines
DataLines == SelectSeq(raw_data_lines, LAMBDA line : ~IsSeparatorLine(line))

\* C13: each raw line is split on '|' and only the one empty cell of a leading
\* delimiter and the one of a trailing delimiter are discarded: the cells of an
\* emitted row are those cells, an explicitly delimited empty cell at the start
\* or end of the row included, and the column count is the largest such count.
C13_OnlyOuterDelimiterCellsDropped ==
    (TableCalled /\ table_out.tag = "Table") =>
        /\ Len(table_out.rows) = Len(DataLines)
        /\ table_out.ncols = Max({Len(DelimitedCells(DataLines[i])) : i \in 1..Len(DataLines)})
        /\ \A i \in 1..Len(DataLines) :
             \A j \in 1..Len(DelimitedCells(DataLines[i])) :
                table_out.rows[i][j] = format_inline_bold(DelimitedCells(DataLines[i])[j])

-----------------------------------------------------------------------------
(* A claim about the scratch directory, checked under SpecExtract *)

\* C15: when extraction returns, the scratch directory holds exactly one file
\* for every accepted image, named by the image's number and format and holding
\* that image, and no other file: an image whose captioning failed left none.
C15_ScratchHoldsAcceptedImagesOnly ==
    xpc = "returned" =>
        temp_img = {[name |-> <<k, ImageAt(image_data[k].img).ext>>, img |-> image_data[k].img] :
                        k \in DOMAIN image_data}

-----------------------------------------------------------------------------
(* A claim about the table runs of save_to_pdf, checked under Spec *)

IsTableLine(line) == line # <<>> /\ line[1] = "|"
\* the k-th line of the input, trimmed
LineAt(k) == Strip(md_lines[k])

\* the maximal run of table lines that ends with line k (empty when line k is
\* no table line, or k = 0)
RECURSIVE RunEndingAt(_)
RunEndingAt(k) ==
    IF k = 0 \/ ~IsTableLine(LineAt(k)) THEN <<>>
    ELSE Append(RunEndingAt(k - 1), LineAt(k))

\* the units of the table made from a run, between its spacers; none for the
\* empty run and for a run that gives no table
RunUnits(run) ==
    IF run = <<>> THEN <<>>
    ELSE LET t == create_paragraph_table(run)
         IN  IF t.tag = "Table" THEN <<Spacer("0.2cm"), TableUnit(t), Spacer("0.5cm")>>
             ELSE <<>>

\* the story the first k lines give when every run is finalized once, at the
\* line that ends it, before that line's own units
RECURSIVE StoryOfLines(_)
StoryOfLines(k) ==
    IF k = 0 THEN InitialStory
    ELSE IF IsTableLine(LineAt(k)) THEN StoryOfLines(k - 1)
    ELSE NormalLine(StoryOfLines(k - 1) \o RunUnits(RunEndingAt(k - 1)), LineAt(k)).story

\* the table of the run that the end of the input closes (it has no spacers)
LastRunUnits ==
    LET run == RunEndingAt(Len(md_lines))
    IN  IF run # <<>> /\ create_paragraph_table(run).tag = "Table"
        THEN <<TableUnit(create_paragraph_table(run))>> ELSE <<>>

\* C14: every maximal run of lines beginning with '|' is finalized exactly once,
\* from its lines in their order, at the first line that is no table line or at
\* the end of the input: while lines are consumed the buffer holds exactly the
\* run that is open; once a line that is no table line was consumed the buffer
\* is empty and the state Normal; and the story is that of the lines in their
\* order, each run's table before the units of the line that ended it.
C14_EachRunFinalizedOnceInOrder ==
    /\ pc = "loop" =>
         /\ table_buffer = RunEndingAt(idx)
         /\ in_table = (RunEndingAt(idx) # <<>>)
         /\ story = StoryOfLines(idx)
    /\ (idx > 0 /\ ~IsTableLine(LineAt(idx))) =>
         /\ table_buffer = <<>> /\ ~in_table
         /\ story = StoryOfLines(idx)
    /\ pc \in {"build", "returned"} =>
         /\ idx = Len(md_lines)
         /\ story = StoryOfLines(idx) \o LastRunUnits

-----------------------------------------------------------------------------
(* main of app.py: the chat loop and its history *)

\* str.strip() of a text that may hold line breaks
StripWs(t) == StripChars(t, {" ", "\n"})

\* str.lower() on the letters of the inputs
LowerOf(c) ==
    IF c = "Q" THEN "q" ELSE IF c = "U" THEN "u" ELSE IF c = "I" THEN "i"
    ELSE IF c = "T" THEN "t" ELSE c
LowerText(t) == [i \in 1..Len(t) |-> LowerOf(t[i])]

\* what the user types, and what response.text holds
In_Hi    == <<"h", "i">>
In_Comma == <<"a", ",", "b">>
In_Exit  == <<"e", "x", "i", "t">>
In_Quit  == <<"Q", "U", "I", "T">>
UserInputs == {In_Hi, In_Comma, In_Exit, In_Quit}
Re_Ok    == <<" ", "o", "k", "\n">>
Re_Lines == <<"y", ",", "\n", "z">>
ReplyTexts == {Re_Ok, Re_Lines}

\* the most turns of a conversation
MaxTurns == 3

\* line 154: user_input.lower() in ["exit", "quit"]
IsExit(user_input) ==
    LowerText(user_input) \in {<<"e", "x", "i", "t">>, <<"q", "u", "i", "t">>}

Entry(role, content) == [role |-> role, content |-> content]

\* lines 105-125: the count of the header line (0 for the empty string that an
\* empty history gives) and one line "role, content" for every entry, its
\* content with line breaks turned into spaces and commas into wide commas
\* (written ";")
format_history_toon(history_list) ==
    [count |-> Len(history_list),
     lines |-> [i \in 1..Len(history_list) |->
                   Entry(history_list[i].role,
                         Replace(Replace(history_list[i].content, <<"\n">>, <<" ">>),
                                 <<",">>, <<";">>))]]

\* a turn that records the input before the reply is there
AppendUserOnly(h, user_input, reply_text) == Append(h, Entry("user", user_input))

\* lines 204-205
AppendTurn(h, user_input, reply_text) ==
    Append(Append(h, Entry("user", user_input)), Entry("model", reply_text))

TurnOf(user_input, ok, reply_text) ==
    [input |-> user_input, ok |-> ok, reply |-> reply_text]

\* line 147
InitChat ==
    /\ history = <<>>
    /\ history_toon = [count |-> 0, lines |-> <<>>]
    /\ turns = <<>>
    /\ cpc = "input"
    /\ IdleTable /\ IdleImage /\ IdleLayout /\ IdleExtract /\ IdleMain

\* lines 153-155: "exit" or "quit" in any case ends the loop
Exit ==
    /\ cpc = "input"
    /\ \E user_input \in UserInputs : IsExit(user_input)
    /\ cpc' = "exited"
    /\ UNCHANGED <<history, history_toon, turns, tvars, ivars, lvars, xvars, mvars>>

\* lines 157-208: the prompt is built from the history; generation gives a reply,
\* which is trimmed and appended after the input, or raises, which is printed
ChatTurn ==
    /\ cpc = "input"
    /\ Len(turns) < MaxTurns
    /\ \E user_input \in UserInputs, ok \in BOOLEAN, text \in ReplyTexts :
         /\ ~IsExit(user_input)
         /\ history_toon' = format_history_toon(history)
         /\ LET reply_text == IF ok THEN StripWs(text) ELSE <<>>
            IN  /\ history' = IF ok THEN AppendTurn(history, user_input, reply_text)
                              ELSE history
                /\ turns' = Append(turns, TurnOf(user_input, ok, reply_text))
    /\ UNCHANGED <<cpc, tvars, ivars, lvars, xvars, mvars>>

\* lines 153-162: input() raises (end of input, interrupt) or, with documents
\* loaded, find_relevant_docs raises: neither stands in a try block, so the
\* exception leaves main, before the history is formatted or touched
Abort ==
    /\ cpc = "input"
    /\ cpc' = "aborted"
    /\ UNCHANGED <<history, history_toon, turns, tvars, ivars, lvars, xvars, mvars>>

NextChat == Exit \/ ChatTurn \/ Abort

SpecChat == InitChat /\ [][NextChat]_vars

-----------------------------------------------------------------------------
(* A claim about the chat history, checked under SpecChat *)

\* the entries the turns so far should have left: input and reply of every turn
\* whose generation succeeded, in order
RECURSIVE EntriesOf(_)
EntriesOf(ts) ==
    IF ts = <<>> THEN <<>>
    ELSE LET t == ts[Len(ts)]
             before == EntriesOf(SubSeq(ts, 1, Len(ts) - 1))
         IN  IF t.ok THEN before \o <<Entry("user", t.input), Entry("model", t.reply)>>
             ELSE before

Alternates(h) ==
    /\ Len(h) % 2 = 0
    /\ \A i \in 1..Len(h) : h[i].role = IF i % 2 = 1 THEN "user" ELSE "model"

\* C20: after any sequence of turns the history has even length and alternates
\* user, model from its first entry: it holds the input and then the reply of
\* every turn whose generation succeeded and nothing of a turn whose generation
\* raised (nor of a turn that an exception ended before the generation); so
\* does the history that format_history_toon was given.
C20_HistoryAlternates ==
    /\ Alternates(history)
    /\ history = EntriesOf(turns)
    /\ Alternates(history_toon.lines)
    /\ history_toon.count = Len(history_toon.lines)

\* three turns, the second of which raised: the history holds the two other
\* turns, and the last prompt was given the first turn's two entries
C20_Witness ==
    /\ Len(turns) = 3
    /\ turns[1].ok /\ ~turns[2].ok /\ turns[3].ok
    /\ Len(history) = 4
    /\ history_toon.count = 2
    /\ history[2].content = <<"y", ",", "\n", "z">>
    /\ history_toon.lines[2].content = <<"y", ";", " ", "z">>

====
